---- MODULE Spec2Model ----
(***************************************************************************)
(* A model of the analytical helpers of nena_research:                     *)
(*   verbs/significance.py  contingency_table, apply_fishers               *)
(*   verbs/positions.py     Positions                                      *)
(* A DataFrame is a record of its row labels (index), its column labels    *)
(* (columns) and its cells (val, keyed by <<row label, column label>>).    *)
(* Real numbers are exact fractions [num, den]; den = 0 stands for the     *)
(* IEEE results of a division by zero (NaN for 0/0, Inf for x/0).          *)
(***************************************************************************)
EXTENDS Integers, Sequences, FiniteSets, TLC

VARIABLES df, call, ret, pc,
          positions, element, originindex, default, pcall, pret, ppc

scorerVars == <<df, call, ret, pc>>
posVars == <<positions, element, originindex, default, pcall, pret, ppc>>
vars == <<df, call, ret, pc, positions, element, originindex, default, pcall, pret, ppc>>

\* ------------------------------------------------------------- bounds
MaxRows == 2
MaxCols == 3
MaxTotal == 3
MaxLen == 3
MaxElem == 2
MaxOffset == 3

\* the axis arguments a caller may pass: the two legal values and one other
Axes == {0, 1, 2}

\* ------------------------------------------------------------- numbers
Min(x, y) == IF x < y THEN x ELSE y
Max(x, y) == IF x > y THEN x ELSE y

RECURSIVE Gcd(_, _)
Gcd(x, y) == IF y = 0 THEN x ELSE Gcd(y, x % y)

NaN == [num |-> 0, den |-> 0]
Inf == [num |-> 1, den |-> 0]

\* true division x / y of two non-negative numbers, as numpy computes it with
\* the divide-by-zero warning suppressed
Div(x, y) ==
    IF y = 0 THEN (IF x = 0 THEN NaN ELSE Inf)
    ELSE LET g == Gcd(x, y) IN [num |-> x \div g, den |-> y \div g]

\* the comparison  n < q  of an integer with a fraction (False against NaN)
IntLess(n, q) ==
    IF q.den = 0 THEN q.num > 0 ELSE n * q.den < q.num

\* ------------------------------------------------------------- DataFrame
Range(s) == {s[i] : i \in DOMAIN s}

RECURSIVE SeqSum(_, _)
SeqSum(f, s) == IF s = <<>> THEN 0 ELSE f[Head(s)] + SeqSum(f, Tail(s))

\* df.T
Transpose(d) ==
    [index |-> d.columns, columns |-> d.index,
     val |-> [p \in Range(d.columns) \X Range(d.index) |-> d.val[<<p[2], p[1]>>]]]

\* a frame labelled like d with the cells v
Like(d, v) == [index |-> d.index, columns |-> d.columns, val |-> v]

\* row.sum() of the row labelled r, col.sum() of the column labelled c
RowSum(d, r) == SeqSum([c \in Range(d.columns) |-> d.val[<<r, c>>]], d.columns)
ColSum(d, c) == SeqSum([r \in Range(d.index) |-> d.val[<<r, c>>]], d.index)

\* the row margins taken along the wrong axis (axis=0 for axis=1)
SampMarginsAxis0(d) == Like(d, [p \in DOMAIN d.val |-> ColSum(d, p[2])])

\* df.apply(lambda row: row.sum(), axis=1, result_type='broadcast')
SampMargins(d) == Like(d, [p \in DOMAIN d.val |-> RowSum(d, p[1])])
\* df.apply(lambda col: col.sum(), axis=0, result_type='broadcast')
FeatMargins(d) == Like(d, [p \in DOMAIN d.val |-> ColSum(d, p[2])])
\* df.sum().sum()
TotalMargin(d) == SeqSum([c \in Range(d.columns) |-> ColSum(d, c)], d.columns)

\* ------------------------------------------------------------- results
Raised == [raised |-> TRUE, val |-> <<>>]
Returned(v) == [raised |-> FALSE, val |-> v]

\* the branch taken by the axis test that opens both functions
AxisCheck(sample_axis, feature_axis) ==
    IF sample_axis = 1 /\ feature_axis = 0 THEN "flip"
    ELSE IF sample_axis # 0 /\ feature_axis # 1 THEN "raise"
    ELSE "keep"

\* the results never flipped back
FlipBackNever(sample_axis) == FALSE

\* the test  sample_axis == 1  that flips the results back
FlipBack(sample_axis) == sample_axis = 1

\* d with c left out of the subtraction
DCellDropC(total, a, b, c) == total - (a + b)

\* d = total_margin - (a + b + c), cell by cell
DCell(total, a, b, c) == total - (a + b + c)

\* e with the sample margin used for both factors
ECellWrongMargin(samp, feat, total) == Div(samp * samp, total)

\* e = samp_margins * feat_margins / total_margin, cell by cell
ECell(samp, feat, total) == Div(samp * feat, total)

contingency_table(df0, sample_axis, feature_axis) ==
    LET chk == AxisCheck(sample_axis, feature_axis) IN
    IF chk = "raise" THEN Raised
    ELSE
      LET d0 == IF chk = "flip" THEN Transpose(df0) ELSE df0
          samp_margins == SampMargins(d0)
          feat_margins == FeatMargins(d0)
          total_margin == TotalMargin(d0)
          b == Like(d0, [p \in DOMAIN d0.val |-> samp_margins.val[p] - d0.val[p]])
          c == Like(d0, [p \in DOMAIN d0.val |-> feat_margins.val[p] - d0.val[p]])
          d == Like(d0, [p \in DOMAIN d0.val |->
                            DCell(total_margin, d0.val[p], b.val[p], c.val[p])])
          e == Like(d0, [p \in DOMAIN d0.val |->
                            ECell(samp_margins.val[p], feat_margins.val[p], total_margin)])
      IN IF FlipBack(sample_axis)
         THEN Returned(<<Transpose(d0), Transpose(b), Transpose(c), Transpose(d), Transpose(e)>>)
         ELSE Returned(<<d0, b, c, d, e>>)

\* ------------------------------------------------------------- Fisher's test
RECURSIVE BinomUp(_, _)
BinomUp(n, k) ==
    IF k = 0 THEN 1 ELSE (BinomUp(n, k - 1) * (n - k + 1)) \div k

\* the binomial coefficient n over k
Binom(n, k) ==
    IF k < 0 \/ k > n THEN 0 ELSE BinomUp(n, Min(k, n - k))

\* numerator of the hypergeometric probability of the table whose first cell
\* is x, with first-row sum n1, second-row sum n2 and first-column sum n
HyperNum(x, n1, n2, n) == Binom(n1, x) * Binom(n2, n - x)

RECURSIVE TailSum(_, _, _, _, _, _)
TailSum(x, hi, n1, n2, n, limit) ==
    IF x > hi THEN 0
    ELSE (IF HyperNum(x, n1, n2, n) <= limit THEN HyperNum(x, n1, n2, n) ELSE 0)
         + TailSum(x + 1, hi, n1, n2, n, limit)

\* stats.fisher_exact(np.matrix([[a, b], [c, d]])): the sample odds ratio and
\* the two-sided p-value, the total probability of the tables with the same
\* margins that are no more probable than the observed one
fisher_exact(a, b, c, d) ==
    IF a + b = 0 \/ c + d = 0 \/ a + c = 0 \/ b + d = 0
    THEN [oddsratio |-> NaN, p_value |-> Div(1, 1)]
    ELSE
      LET n1 == a + b
          n2 == c + d
          n == a + c
          lo == Max(0, n - n2)
          hi == Min(n1, n)
          pexact == HyperNum(a, n1, n2, n)
      IN [oddsratio |-> IF c > 0 /\ b > 0 THEN Div(a * d, c * b) ELSE Inf,
          p_value |-> Div(TailSum(lo, hi, n1, n2, n, pexact),
                          Binom(n1 + n2, n))]

\* np.log10(p) of a p-value in (0, 1]: zero for p = 1 and negative below it;
\* arg keeps the p-value the magnitude comes from
Log10(p) == [sgn |-> IF p.num = p.den THEN 0 ELSE 0 - 1, arg |-> p]
\* unary minus of a logarithm
Neg(s) == [sgn |-> 0 - s.sgn, arg |-> s.arg]

\* the sign rule with the two branches exchanged
StrengthFlipped(a, expected_freq, p_value) ==
    IF IntLess(a, expected_freq) THEN Neg(Log10(p_value)) ELSE Log10(p_value)

\* the branch  if a < expected_freq  choosing the sign of the strength
Strength(a, expected_freq, p_value) ==
    IF IntLess(a, expected_freq) THEN Log10(p_value) ELSE Neg(Log10(p_value))

\* the transform without the sign rule
ScoreNoSign(logtransform, a, expected_freq, p_value) ==
    IF ~logtransform THEN p_value ELSE Log10(p_value)

\* ps[feature][sample]: the raw p-value, or the signed strength
Score(logtransform, a, expected_freq, p_value) ==
    IF ~logtransform THEN p_value ELSE Strength(a, expected_freq, p_value)

\* the 2x2 table with its second row reversed
ContingencySwapped(a, b, c, d) == <<a, b, d, c>>

\* the 2x2 table handed to Fisher's test for one pair
Contingency(a, b, c, d) == <<a, b, c, d>>

\* orient = 'columns' if sample_axis == 0 else 'index'
Orient(sample_axis) == IF sample_axis = 0 THEN "columns" ELSE "index"

\* pd.DataFrame.from_dict(d, orient=orient) of a dict of dicts d[outer][inner]
\* whose outer keys are outerKeys and inner keys innerKeys, in insertion order
from_dict(d, orient, outerKeys, innerKeys) ==
    IF orient = "columns"
    THEN [index |-> innerKeys, columns |-> outerKeys,
          val |-> [p \in Range(innerKeys) \X Range(outerKeys) |-> d[p[2]][p[1]]]]
    ELSE [index |-> outerKeys, columns |-> innerKeys,
          val |-> [p \in Range(outerKeys) \X Range(innerKeys) |-> d[p[1]][p[2]]]]

apply_fishers(df0, sample_axis, feature_axis, logtransform) ==
    LET chk == AxisCheck(sample_axis, feature_axis) IN
    IF chk = "raise" THEN Raised
    ELSE
      LET d0 == IF chk = "flip" THEN Transpose(df0) ELSE df0
          ct == contingency_table(d0, 0, 1).val
          b_df == ct[2]
          c_df == ct[3]
          d_df == ct[4]
          e_df == ct[5]
          tab(sample, feature) ==
              Contingency(d0.val[<<sample, feature>>], b_df.val[<<sample, feature>>],
                          c_df.val[<<sample, feature>>], d_df.val[<<sample, feature>>])
          fe(sample, feature) ==
              LET t == tab(sample, feature) IN fisher_exact(t[1], t[2], t[3], t[4])
          ps == [feature \in Range(d0.columns) |-> [sample \in Range(d0.index) |->
                    Score(logtransform, d0.val[<<sample, feature>>],
                          e_df.val[<<sample, feature>>], fe(sample, feature).p_value)]]
          odds == [feature \in Range(d0.columns) |-> [sample \in Range(d0.index) |->
                    fe(sample, feature).oddsratio]]
          orient == Orient(sample_axis)
      IN Returned(<<from_dict(ps, orient, d0.columns, d0.index),
                    from_dict(odds, orient, d0.columns, d0.index)>>)

\* ------------------------------------------------------------- inputs
Labels(prefix, n) == [i \in 1..n |-> prefix \o ToString(i)]

\* the assignments of counts to the cells S whose sum is at most t
RECURSIVE Counts(_, _)
Counts(S, t) ==
    IF S = {} THEN {[p \in {} |-> 0]}
    ELSE LET x == CHOOSE y \in S : TRUE
         IN UNION {{(x :> k) @@ f : f \in Counts(S \ {x}, t - k)} : k \in 0..t}

\* the count matrices of nr rows and nc columns with grand total at most
\* MaxTotal
Frames(nr, nc) ==
    LET idx == Labels("w", nr)
        cols == Labels("f", nc)
        cells == Range(idx) \X Range(cols)
    IN {[index |-> idx, columns |-> cols, val |-> [p \in cells |-> v[p]]] :
            v \in Counts(cells, MaxTotal)}

Shapes == (1..MaxRows) \X (1..MaxCols)

\* the matrix of the worked example: w1/f1=10, w1/f2=2, w2/f1=3, w2/f2=15
Scenario ==
    [index |-> <<"w1", "w2">>, columns |-> <<"f1", "f2">>,
     val |-> (<<"w1", "f1">> :> 10) @@ (<<"w1", "f2">> :> 2)
          @@ (<<"w2", "f1">> :> 3) @@ (<<"w2", "f2">> :> 15)]

Inputs == UNION {Frames(s[1], s[2]) : s \in Shapes} \cup {Scenario, Transpose(Scenario)}

\* ------------------------------------------------------------- the scorer
NoCall == [fn |-> "none"]
\* the value of ret before any call has returned or raised
NoResult == [raised |-> FALSE, val |-> <<>>]

InitScorer ==
    /\ df \in Inputs
    /\ call = NoCall
    /\ ret = NoResult
    /\ pc = "idle"

Outcome(r) == IF r.raised THEN "raised" ELSE "returned"

CallContingencyTable ==
    \E sample_axis \in Axes, feature_axis \in Axes :
      /\ pc = "idle"
      /\ call' = [fn |-> "contingency_table", sample_axis |-> sample_axis,
                  feature_axis |-> feature_axis]
      /\ ret' = contingency_table(df, sample_axis, feature_axis)
      /\ pc' = Outcome(ret')
      /\ UNCHANGED <<df, posVars>>

CallApplyFishers ==
    \E sample_axis \in Axes, feature_axis \in Axes, logtransform \in BOOLEAN :
      /\ pc = "idle"
      /\ call' = [fn |-> "apply_fishers", sample_axis |-> sample_axis,
                  feature_axis |-> feature_axis, logtransform |-> logtransform]
      /\ ret' = apply_fishers(df, sample_axis, feature_axis, logtransform)
      /\ pc' = Outcome(ret')
      /\ UNCHANGED <<df, posVars>>


\* ------------------------------------------------------------- Positions
\* Python values: integers, None, and a callable
PyInt(n) == [type |-> "int", val |-> n]
None == [type |-> "NoneType", val |-> 0]
Func == [type |-> "function", val |-> 0]
IndexError == [type |-> "IndexError", val |-> 0]
TypeError == [type |-> "TypeError", val |-> 0]

\* the truth value Python gives a value in  if x:
Truthy(v) == ~(v.type = "NoneType" \/ (v.type = "int" /\ v.val = 0))

\* the value of  do(x)  for the callable the caller passes
Do(x) == [type |-> "done", val |-> x.val]

\* seq[i] of a Python list: an index in -len..len-1 is accepted, a negative one
\* counting from the end; None is no index
GetItem(seq, i) ==
    IF i.type # "int" THEN TypeError
    ELSE IF 0 <= i.val /\ i.val < Len(seq) THEN seq[i.val + 1]
    ELSE IF 0 - Len(seq) <= i.val /\ i.val < 0 THEN seq[Len(seq) + i.val + 1]
    ELSE IndexError

\* positions.index(element): the 0-based index of the first occurrence
OriginIndex(seq, e) == (CHOOSE i \in 1..Len(seq) :
                          seq[i] = e /\ \A j \in 1..(i - 1) : seq[j] # e) - 1

\* pos_index = pos_index if (pos_index > -1) else None
GuardIndex(pos_index) == IF pos_index > 0 - 1 THEN PyInt(pos_index) ELSE None

elementpos(position) ==
    LET pos_index == GuardIndex(originindex + position)
        got == GetItem(positions, pos_index)
    IN IF got \in {IndexError, TypeError} THEN None ELSE got

\* the test  if get_pos:  deciding between the element and the default
Found(get_pos) == Truthy(get_pos)

get(position, default_arg, do) ==
    LET dflt == IF default_arg # None THEN default_arg ELSE default
        get_pos == elementpos(position)
    IN IF Found(get_pos)
       THEN (IF ~Truthy(do) THEN get_pos ELSE Do(get_pos))
       ELSE dflt

Elements == {PyInt(n) : n \in 0..MaxElem}
Contexts == UNION {[1..n -> Elements] : n \in 1..MaxLen}
InstanceDefaults == {None, PyInt(MaxElem + 1)}
CallDefaults == {None, PyInt(0), PyInt(MaxElem + 2)}

\* Positions(element, positions, default)
InitPos ==
    /\ positions \in Contexts
    /\ element \in Range(positions)
    /\ originindex = OriginIndex(positions, element)
    /\ default \in InstanceDefaults
    /\ pcall = NoCall
    /\ pret = None
    /\ ppc = "constructed"

Get ==
    \E position \in (0 - MaxOffset)..MaxOffset, default_arg \in CallDefaults,
       do \in {None, Func} :
      /\ pcall' = [fn |-> "get", position |-> position, default |-> default_arg, do |-> do]
      /\ pret' = get(position, default_arg, do)
      /\ ppc' = "returned"
      /\ UNCHANGED <<positions, element, originindex, default, scorerVars>>

\* no Positions object exists while the scorer is exercised, and no scorer call
\* is made while a Positions object is
PosIdle ==
    /\ positions = <<>>
    /\ element = None
    /\ originindex = 0
    /\ default = None
    /\ pcall = NoCall
    /\ pret = None
    /\ ppc = "absent"

ScorerIdle ==
    /\ df = Scenario
    /\ call = NoCall
    /\ ret = NoResult
    /\ pc = "idle"

\* ------------------------------------------------------------- specifications
Init == InitScorer /\ PosIdle
Next == CallContingencyTable \/ CallApplyFishers
Spec == Init /\ [][Next]_vars

InitP == InitPos /\ ScorerIdle
NextP == Get
SpecPos == InitP /\ [][NextP]_vars


\* ------------------------------------------------------------- properties
\* what the properties say of a call, computed from the caller's matrix alone
RECURSIVE SetSum(_, _)
SetSum(f, S) ==
    IF S = {} THEN 0 ELSE LET x == CHOOSE y \in S : TRUE IN f[x] + SetSum(f, S \ {x})

GrandTotal(d) == SetSum(d.val, DOMAIN d.val)
RowTotal(d, r) == SetSum(d.val, {p \in DOMAIN d.val : p[1] = r})
ColTotal(d, c) == SetSum(d.val, {p \in DOMAIN d.val : p[2] = c})

IsCT == call.fn = "contingency_table"
IsAF == call.fn = "apply_fishers"
Called == call.fn # "none"
LegalAxes == Called /\ <<call.sample_axis, call.feature_axis>> \in {<<0, 1>>, <<1, 0>>}

\* the total over the sample of the cell p and over its feature, under the
\* axis declaration of the call
SampleTotal(p) == IF call.sample_axis = 0 THEN RowTotal(df, p[1]) ELSE ColTotal(df, p[2])
FeatureTotal(p) == IF call.sample_axis = 0 THEN ColTotal(df, p[2]) ELSE RowTotal(df, p[1])

\* the contingency cells of the pair at p
CellA(p) == df.val[p]
CellB(p) == SampleTotal(p) - CellA(p)
CellC(p) == FeatureTotal(p) - CellA(p)
CellD(p) == GrandTotal(df) - CellA(p) - CellB(p) - CellC(p)

\* C1: a call with any axis pair other than (0,1) and (1,0) fails with the
\* invalid-axis error and returns nothing; the two legal pairs are accepted.
C1_InvalidAxisRejected ==
    Called => (ret.raised <=> ~LegalAxes)

\* C2: in the matrices contingency_table returns, a + b + c + d is the grand
\* total of the input matrix at every cell.
C2_MarginConservation ==
    (IsCT /\ ~ret.raised) =>
        \A p \in DOMAIN ret.val[1].val :
            ret.val[1].val[p] + ret.val[2].val[p] + ret.val[3].val[p] + ret.val[4].val[p]
                = GrandTotal(df)

C2_Witness ==
    /\ IsCT /\ ~ret.raised
    /\ \E p \in DOMAIN ret.val[1].val :
          ret.val[1].val[p] > 0 /\ ret.val[2].val[p] > 0
          /\ ret.val[3].val[p] > 0 /\ ret.val[4].val[p] > 0

\* C3: a call with axes (0,1) on M and the call with axes (1,0) on the
\* transpose of M return the same matrices up to transposition, for
\* contingency_table (five matrices) and for apply_fishers (score and odds
\* ratio, for either value of logtransform).
C3_AxisSwapSymmetry ==
    /\ (IsCT /\ call.sample_axis = 0 /\ call.feature_axis = 1) =>
          LET o == contingency_table(Transpose(df), 1, 0)
          IN ~ret.raised /\ ~o.raised
             /\ \A i \in 1..5 : o.val[i] = Transpose(ret.val[i])
    /\ (IsAF /\ call.sample_axis = 0 /\ call.feature_axis = 1) =>
          LET o == apply_fishers(Transpose(df), 1, 0, call.logtransform)
          IN ~ret.raised /\ ~o.raised
             /\ \A i \in 1..2 : o.val[i] = Transpose(ret.val[i])

C3_Witness ==
    /\ IsAF /\ call.sample_axis = 0 /\ call.feature_axis = 1 /\ call.logtransform
    /\ ~ret.raised
    /\ Len(df.index) # Len(df.columns)
    /\ \E p \in DOMAIN ret.val[1].val : ret.val[1].val[p].sgn # 0

\* C4: every matrix a call returns has the row labels and the column labels
\* of the matrix the caller passed in.
C4_CallerOrientation ==
    (Called /\ ~ret.raised) =>
        \A i \in DOMAIN ret.val :
            ret.val[i].index = df.index /\ ret.val[i].columns = df.columns

\* C5: with logtransform on, the score of a pair whose count a is strictly
\* below its expected frequency e is log10(p) and is <= 0; the score of a
\* pair with a >= e is -log10(p) and is >= 0.
C5_ScoreSign ==
    (IsAF /\ LegalAxes /\ call.logtransform) =>
        LET e == contingency_table(df, call.sample_axis, call.feature_axis).val[5]
            raw == apply_fishers(df, call.sample_axis, call.feature_axis, FALSE).val[1]
        IN \A p \in DOMAIN df.val :
              /\ (e.val[p].den # 0 /\ CellA(p) * e.val[p].den < e.val[p].num) =>
                    (ret.val[1].val[p] = Log10(raw.val[p]) /\ ret.val[1].val[p].sgn <= 0)
              /\ (e.val[p].den # 0 /\ CellA(p) * e.val[p].den >= e.val[p].num) =>
                    (ret.val[1].val[p] = Neg(Log10(raw.val[p])) /\ ret.val[1].val[p].sgn >= 0)

C5_Witness ==
    /\ IsAF /\ LegalAxes /\ call.logtransform /\ ~ret.raised
    /\ \E p \in DOMAIN df.val : ret.val[1].val[p].sgn < 0
    /\ \E p \in DOMAIN df.val : ret.val[1].val[p].sgn > 0

\* C6: applying the sign rule to the p-values of the call with logtransform
\* off gives the score matrix of the call with logtransform on, and both calls
\* return the same odds-ratio matrix.
C6_TransformRoundTrip ==
    (IsAF /\ LegalAxes) =>
        LET e == contingency_table(df, call.sample_axis, call.feature_axis).val[5]
            off == apply_fishers(df, call.sample_axis, call.feature_axis, FALSE).val
            on == apply_fishers(df, call.sample_axis, call.feature_axis, TRUE).val
            rule(p) == IF IntLess(df.val[p], e.val[p])
                       THEN Log10(off[1].val[p]) ELSE Neg(Log10(off[1].val[p]))
        IN /\ ret.val = (IF call.logtransform THEN on ELSE off)
           /\ on[1] = [off[1] EXCEPT !.val = [p \in DOMAIN off[1].val |-> rule(p)]]
           /\ on[2] = off[2]

C6_Witness ==
    /\ IsAF /\ LegalAxes /\ ~call.logtransform /\ ~ret.raised
    /\ \E p \in DOMAIN df.val : ret.val[1].val[p].num < ret.val[1].val[p].den
    /\ \E p \in DOMAIN df.val : ret.val[1].val[p].num = ret.val[1].val[p].den

\* C7: for a matrix with grand total > 0, the e matrix holds at every pair
\* row_sum(sample) * col_sum(feature) / grand_total.
C7_ExpectedFrequency ==
    (IsCT /\ LegalAxes /\ GrandTotal(df) > 0) =>
        \A p \in DOMAIN df.val :
            /\ ret.val[5].val[p].den > 0
            /\ ret.val[5].val[p].num * GrandTotal(df)
                 = ret.val[5].val[p].den * SampleTotal(p) * FeatureTotal(p)

C7_Witness ==
    /\ IsCT /\ LegalAxes /\ ~ret.raised /\ GrandTotal(df) > 0
    /\ \E p \in DOMAIN df.val : ret.val[5].val[p].den > 1

\* C8: the test is run on the table [[a, b], [c, d]] of each pair's own cells
\* and the odds ratio stored at the pair's position is (a*d)/(b*c); in the worked example the pair (w1, f1) has a=10, b=2,
\* c=3, d=15, e=5.2, a non-negative log-transformed score and odds ratio 25.
C8_OddsRatio ==
    /\ (IsAF /\ LegalAxes) =>
          \A p \in DOMAIN df.val :
              /\ ret.val[2].val[p] = Div(CellA(p) * CellD(p), CellB(p) * CellC(p))
              /\ ~call.logtransform =>
                    ret.val[1].val[p] = fisher_exact(CellA(p), CellB(p), CellC(p), CellD(p)).p_value
    /\ (df = Scenario /\ Called /\ call.sample_axis = 0 /\ call.feature_axis = 1) =>
          IF IsCT
          THEN /\ ret.val[1].val[<<"w1", "f1">>] = 10
               /\ ret.val[2].val[<<"w1", "f1">>] = 2
               /\ ret.val[3].val[<<"w1", "f1">>] = 3
               /\ ret.val[4].val[<<"w1", "f1">>] = 15
               /\ ret.val[5].val[<<"w1", "f1">>] = [num |-> 26, den |-> 5]
          ELSE /\ ret.val[2].val[<<"w1", "f1">>] = [num |-> 25, den |-> 1]
               /\ call.logtransform => ret.val[1].val[<<"w1", "f1">>].sgn >= 0

C8_Witness ==
    /\ df = Scenario /\ IsAF /\ call.sample_axis = 0 /\ call.feature_axis = 1
    /\ call.logtransform /\ ~ret.raised
    /\ ret.val[1].val[<<"w1", "f1">>].sgn = 1

\* C9: get(k) returns the element at index i+k of the sequence when that index
\* is within bounds, whatever the element's value, and the per-call default
\* (or, without one, the instance default) when it is not.
C9_LookupReturnsElement ==
    (pcall.fn = "get" /\ pcall.do = None) =>
        LET t == originindex + pcall.position
        IN pret = (IF 0 <= t /\ t < Len(positions) THEN positions[t + 1]
                   ELSE IF pcall.default # None THEN pcall.default ELSE default)

\* C10: for a matrix of non-negative counts every cell of b, c and d is
\* >= 0, with b = row_sum(sample) - a and c = col_sum(feature) - a.
C10_NonNegativeCells ==
    /\ (IsCT /\ ~ret.raised) =>
          \A p \in DOMAIN ret.val[1].val :
              ret.val[2].val[p] >= 0 /\ ret.val[3].val[p] >= 0 /\ ret.val[4].val[p] >= 0
    /\ (IsCT /\ LegalAxes) =>
          \A p \in DOMAIN df.val :
              ret.val[2].val[p] = CellB(p) /\ ret.val[3].val[p] = CellC(p)

C10_Witness ==
    /\ IsCT /\ call.sample_axis = 1 /\ call.feature_axis = 0 /\ ~ret.raised
    /\ \E p \in DOMAIN df.val :
          ret.val[2].val[p] > 0 /\ ret.val[3].val[p] > 0 /\ ret.val[4].val[p] = 0
    /\ \E p \in DOMAIN df.val : RowTotal(df, p[1]) # ColTotal(df, p[2])


====
